---- MODULE Spec2Model ----
(***************************************************************************)
(* The interning store of simple-interner: Interner<T, S, StdRawRwLock>    *)
(* (src/src/interner.rs) over the lock adapter StdRawRwLock                *)
(* (src/src/std_lock_api.rs), which bridges lock_api's call/release        *)
(* contract onto std::sync::RwLock<()>.                                    *)
(*                                                                         *)
(* Spec        threads calling get / get_raw / intern / intern_raw         *)
(* LifeSpec    Spec, then the drop of the Interner                         *)
(* LockSpec    threads driving the six RawRwLock operations of the adapter *)
(*             directly, under lock_api's contract (release only if held)  *)
(* PoisonSpec  LockSpec, with holders that panic under the exclusive lock  *)
(* LazySpec    the lock operations with LazyPinBox::deref taken step by    *)
(*             step                                                        *)
(***************************************************************************)
EXTENDS Integers, FiniteSets

NumThreads == 2
NumValues == 2

Threads == 1..NumThreads
Values == 1..NumValues
\* one allocation per retained value, plus the box intern builds before its recheck
Addrs == 1..(NumValues + 1)
\* Option::None of a handle or a value, and a heap cell that holds no Box
None == 0
Free == 0
\* MaybeUninit::uninit()
Uninit == 0

VARIABLES
    \* std::sync::RwLock<()> behind StdRawRwLock.lock
    once,        \* LazyPinBox.init: "incomplete" | "running" | "complete"
    data,        \* LazyPinBox.data: Uninit, or the instance written into it
    inits,       \* how many RwLock instances have been constructed
    readers,     \* read guards of the primitive that have not been dropped
    wlocked,     \* the primitive is write-locked
    waitW,       \* threads blocked inside RwLock::write()
    writerPref,  \* platform policy: a waiting writer refuses new readers
    poisoned,    \* a write guard was dropped by a panicking thread
    \* StdRawRwLock.write: the slot for the lifetime-erased write guard
    write,       \* "None" | "Some"
    \* Interner.arena and the heap the PinBoxes point into
    arena,       \* set of [ptr, hash]: the keys of the HashMap
    capacity,    \* capacity of the table
    heap,        \* Addrs -> Values \cup {Free}
    alive,       \* the Interner has not been dropped
    \* one call per thread
    pc,          \* where the thread's call stands
    op, val,     \* the operation called and its argument
    ret,         \* the handle's address, or None
    path,        \* which branch an intern took: "fast" | "occupied" | "vacant"
    allocated,   \* the call has created a Box
    commits,     \* how many times the call has run intern_raw's commit closure
    seen,        \* a get: the addresses intern had returned for its value when it began
    \* lock_api client of LockSpec: the last try_* result
    tryres,
    \* history
    internRet,   \* <<value, address>> returned by finished intern / intern_raw calls
    getRet,      \* <<value, address>> returned by finished get / get_raw calls
    allocs,      \* Values -> number of Boxes ever created for the value
    drops        \* Values -> number of Boxes of the value ever freed

lockvars == <<once, data, inits, readers, wlocked, waitW, writerPref, poisoned, write>>
storevars == <<arena, capacity, heap, alive>>
callvars == <<pc, op, val, ret, path, allocated, commits, seen>>
histvars == <<internRet, getRet, allocs, drops>>
vars == <<lockvars, storevars, callvars, tryres, histvars>>

Ops == {"get", "get_raw", "intern", "intern_raw"}
Gets == {"get", "get_raw"}
Interns == {"intern", "intern_raw"}

Init ==
    /\ once = "incomplete"
    /\ data = Uninit
    /\ inits = 0
    /\ readers = 0
    /\ wlocked = FALSE
    /\ waitW = {}
    /\ writerPref \in BOOLEAN
    /\ poisoned = FALSE
    /\ write = "None"
    /\ arena = {}
    /\ capacity = 0
    /\ heap = [a \in Addrs |-> Free]
    /\ alive = TRUE
    /\ pc = [t \in Threads |-> "idle"]
    /\ op = [t \in Threads |-> "none"]
    /\ val = [t \in Threads |-> None]
    /\ ret = [t \in Threads |-> None]
    /\ path = [t \in Threads |-> "none"]
    /\ allocated = [t \in Threads |-> FALSE]
    /\ commits = [t \in Threads |-> 0]
    /\ seen = [t \in Threads |-> {}]
    /\ tryres = [t \in Threads |-> "none"]
    /\ internRet = {}
    /\ getRet = {}
    /\ allocs = [v \in Values |-> 0]
    /\ drops = [v \in Values |-> 0]

----------------------------------------------------------------------------
(* std::sync::RwLock<()> as the adapter uses it.  Its priority policy is the
   platform's: std documents that a writer waiting in write() "might or might
   not block concurrent calls to read".  The futex implementation (Linux)
   refuses read and try_read while a writer waits; writerPref is that choice,
   fixed for a run. *)

\* RwLock::read / try_read grant a read guard
is_read_lockable == ~wlocked /\ (writerPref => waitW = {})

\* RwLock::write / try_write grant the write guard
is_write_lockable == ~wlocked /\ readers = 0

\* LazyPinBox::deref: call_once, then the initialised cell
deref ==
    /\ once' = "complete"
    /\ data' = IF once = "complete" THEN data ELSE inits + 1
    /\ inits' = IF once = "complete" THEN inits ELSE inits + 1

----------------------------------------------------------------------------
(* StdRawRwLock: unsafe impl RawRwLock *)

\* .expect("interner lock should not be poisoned") on the LockResult of an
\* acquisition the primitive granted: where the call goes next
expect(granted) == IF poisoned THEN "poison_panic" ELSE granted

\* the result of try_read goes unchecked: the call returns without a read guard
lock_shared_Unchecked ==
    /\ deref
    /\ readers' = IF is_read_lockable /\ ~poisoned THEN readers + 1 ELSE readers
    /\ UNCHANGED <<wlocked, waitW, writerPref, poisoned, write>>

\* blocks (is disabled) until the primitive grants a read guard, then forgets it;
\* on a poisoned lock the guard comes inside the error and drops with the panic
lock_shared ==
    /\ is_read_lockable
    /\ deref
    /\ readers' = IF poisoned THEN readers ELSE readers + 1
    /\ UNCHANGED <<wlocked, waitW, writerPref, poisoned, write>>

\* r: "true" | "false" (WouldBlock) | "panic" (Poisoned, through expect)
try_lock_shared(r) ==
    /\ deref
    /\ r = (IF ~is_read_lockable THEN "false" ELSE IF poisoned THEN "panic" ELSE "true")
    /\ readers' = IF r = "true" THEN readers + 1 ELSE readers
    /\ UNCHANGED <<wlocked, waitW, writerPref, poisoned, write>>

\* the release drops every read guard of the primitive, not the caller's one
unlock_shared_ReleasesAll ==
    /\ deref
    /\ readers' = 0
    /\ UNCHANGED <<wlocked, waitW, writerPref, poisoned, write>>

\* try_read for a new guard; on Ok drop the bitwise copy and the new guard; an
\* Err, WouldBlock or Poisoned, releases nothing
unlock_shared ==
    /\ deref
    /\ readers' = IF is_read_lockable /\ ~poisoned THEN (readers + 1) - 2 ELSE readers
    /\ UNCHANGED <<wlocked, waitW, writerPref, poisoned, write>>

\* RwLock::write: granted at once, or the thread waits; the guard goes to the slot
lock_exclusive(t) ==
    /\ deref
    /\ IF is_write_lockable
       THEN /\ wlocked' = ~poisoned
            /\ waitW' = waitW \ {t}
            /\ write' = IF poisoned THEN write ELSE "Some"
       ELSE /\ waitW' = waitW \cup {t}
            /\ UNCHANGED <<wlocked, write>>
    /\ UNCHANGED <<readers, writerPref, poisoned>>

\* the guard is not stored in the slot: it drops as the call returns
try_lock_exclusive_DropsGuard(r) ==
    /\ deref
    /\ r = (IF ~is_write_lockable THEN "false" ELSE IF poisoned THEN "panic" ELSE "true")
    /\ UNCHANGED <<readers, wlocked, waitW, writerPref, poisoned, write>>

try_lock_exclusive(r) ==
    /\ deref
    /\ r = (IF ~is_write_lockable THEN "false" ELSE IF poisoned THEN "panic" ELSE "true")
    /\ wlocked' = IF r = "true" THEN TRUE ELSE wlocked
    /\ write' = IF r = "true" THEN "Some" ELSE write
    /\ UNCHANGED <<readers, waitW, writerPref, poisoned>>

\* the guard is dropped through a copy read from the slot; the slot keeps it
unlock_exclusive_KeepsGuard(panicking) ==
    /\ IF write = "Some"
       THEN /\ wlocked' = FALSE
            /\ poisoned' = (poisoned \/ panicking)
            /\ UNCHANGED write
       ELSE UNCHANGED <<wlocked, write, poisoned>>
    /\ UNCHANGED <<once, data, inits, readers, waitW, writerPref>>

\* take the guard out of the slot and drop it; the primitive is poisoned when
\* its write guard drops on a thread that is panicking (unwinding)
unlock_exclusive(panicking) ==
    /\ IF write = "Some"
       THEN /\ write' = "None"
            /\ wlocked' = FALSE
            /\ poisoned' = (poisoned \/ panicking)
       ELSE UNCHANGED <<wlocked, write, poisoned>>
    /\ UNCHANGED <<once, data, inits, readers, waitW, writerPref>>

----------------------------------------------------------------------------
(* Interner *)

\* the hash-function family: values 1 and 2 collide
do_hash(v) == (v + 1) \div 2

\* is_match is never consulted: any key with the hash matches
Match_HashOnly(h, v) == {e \in arena : e.hash = h}

\* the keys a probe for hash h with candidate v matches
Match(h, v) == {e \in arena : e.hash = h /\ heap[e.ptr] = v}

\* the probe never finds a key
Lookup_Misses(h, v) == None

\* get_key_value / raw_entry().from_hash: the stored key's address, if any
Lookup(h, v) == IF Match(h, v) = {} THEN None ELSE (CHOOSE e \in Match(h, v) : TRUE).ptr

\* Box::into_raw(x): the allocator hands out an address that holds no live Box
NewBox == CHOOSE a \in Addrs : heap[a] = Free /\ \A b \in Addrs : heap[b] = Free => a <= b

\* PinBox::new(x): the Box's allocation, now at address a, holds v
PinBox_new(h, a, v) == [h EXCEPT ![a] = v]

\* the allocation is leaked instead of freed
PinBox_drop_Leaks(h, a) == h

\* Drop for PinBox: Box::from_raw frees the allocation
PinBox_drop(h, a) == [h EXCEPT ![a] = Free]

\* no recheck: the entry is always taken to be vacant
Recheck_Skipped(h, v) == None

\* arena.entry(key) / raw_entry_mut().from_hash(..): the recheck under the write guard
Recheck(h, v) == Lookup(h, v)

\* the handle aliases the caller's new box, which drops with the entry
OccupiedKey_NewBox(found, a) == a

\* Entry::Occupied(entry): entry.key() is the key stored in the table
OccupiedKey(found, a) == found

\* the table reallocates when an insertion finds it full
Grow(n) == IF n < capacity THEN capacity ELSE IF capacity = 0 THEN 1 ELSE 2 * capacity

\* a growing table loses the keys it held
Insert_GrowthLosesKeys(ar, e) == IF Cardinality(ar) < capacity THEN ar \cup {e} ELSE {e}

\* entry.insert(()) / insert_with_hasher: the key moves into the table, which may
\* grow and rehash; the keys it already holds are kept
Insert(ar, e) == ar \cup {e}

\* intern goes on to the write lock even when its probe found the value
AfterGet_NoFastPath(o, r) == IF o \in Gets THEN "done" ELSE "write"

\* a get that misses goes on to the write lock, as intern does
AfterGet_GetInserts(o, r) == IF r # None THEN "done" ELSE "write"

\* after the shared-lock probe: get returns what it found; intern returns on a
\* hit (`if let Some(interned) = self.get(..) { return interned; }`), else goes on
AfterGet(o, r) == IF o \in Gets \/ r # None THEN "done" ELSE "write"

\* a call starts: every operation begins with a shared-lock probe
Call(t) ==
    /\ alive
    /\ pc[t] = "idle"
    /\ \E o \in Ops, v \in Values :
           /\ op' = [op EXCEPT ![t] = o]
           /\ val' = [val EXCEPT ![t] = v]
           /\ seen' = [seen EXCEPT ![t] = IF o \in Gets
                                         THEN {p[2] : p \in {q \in internRet : q[1] = v}}
                                         ELSE {}]
    /\ pc' = [pc EXCEPT ![t] = "read"]
    /\ UNCHANGED <<ret, path, allocated, commits, lockvars, storevars, tryres, histvars>>

\* self.arena.read()
Read(t) ==
    /\ pc[t] = "read"
    /\ lock_shared
    /\ pc' = [pc EXCEPT ![t] = expect("probe")]
    /\ UNCHANGED <<op, val, ret, path, allocated, commits, seen, storevars, tryres, histvars>>

\* get_key_value(t) / raw_entry().from_hash(hash, is_match) under the read guard
Probe(t) ==
    /\ pc[t] = "probe"
    /\ ret' = [ret EXCEPT ![t] = Lookup(do_hash(val[t]), val[t])]
    /\ pc' = [pc EXCEPT ![t] = "drop_read"]
    /\ UNCHANGED <<op, val, path, allocated, commits, seen, lockvars, storevars, tryres, histvars>>

\* the read guard drops as get returns; intern returns on a hit, else goes on
DropRead(t) ==
    /\ pc[t] = "drop_read"
    /\ unlock_shared
    /\ pc' = [pc EXCEPT ![t] = AfterGet(op[t], ret[t])]
    /\ path' = [path EXCEPT ![t] = IF op[t] \in Interns /\ AfterGet(op[t], ret[t]) = "done"
                                  THEN "fast" ELSE "none"]
    /\ UNCHANGED <<op, val, ret, allocated, commits, seen, storevars, tryres, histvars>>

\* self.arena.write()
Write(t) ==
    /\ pc[t] = "write"
    /\ lock_exclusive(t)
    /\ pc' = [pc EXCEPT ![t] = IF is_write_lockable THEN expect("entry") ELSE "write"]
    /\ UNCHANGED <<op, val, ret, path, allocated, commits, seen, storevars, tryres, histvars>>

\* intern: arena.entry(PinBox::new(t.into())), then the match on the entry
Entry(t) ==
    /\ pc[t] = "entry"
    /\ op[t] = "intern"
    /\ \E x \in Addrs : heap[x] = Free
    /\ LET v == val[t]
           a == NewBox
           boxed == PinBox_new(heap, a, v)
           found == Recheck(do_hash(v), v)
       IN  IF found # None
           THEN \* Occupied: the stored key; the new box drops with the entry
                /\ ret' = [ret EXCEPT ![t] = OccupiedKey(found, a)]
                /\ path' = [path EXCEPT ![t] = "occupied"]
                /\ heap' = PinBox_drop(boxed, a)
                /\ drops' = [drops EXCEPT ![v] = @ + 1]
                /\ UNCHANGED <<arena, capacity>>
           ELSE \* Vacant: the new box moves into the table
                /\ ret' = [ret EXCEPT ![t] = a]
                /\ path' = [path EXCEPT ![t] = "vacant"]
                /\ heap' = boxed
                /\ arena' = Insert(arena, [ptr |-> a, hash |-> do_hash(v)])
                /\ capacity' = Grow(Cardinality(arena))
                /\ UNCHANGED drops
    /\ allocated' = [allocated EXCEPT ![t] = TRUE]
    /\ allocs' = [allocs EXCEPT ![val[t]] = @ + 1]
    /\ pc' = [pc EXCEPT ![t] = "drop_write"]
    /\ UNCHANGED <<op, val, commits, seen, lockvars, tryres, alive, internRet, getRet>>

\* commit is called on every entry, matched or not
RunsCommit_Always(found) == TRUE

\* RawEntryMut::Vacant(entry) => PinBox::new(commit(it)): the only call of commit
RunsCommit(found) == found = None

\* intern_raw: raw_entry_mut().from_hash(hash, is_match); commit only when vacant
RawEntry(t) ==
    /\ pc[t] = "entry"
    /\ op[t] = "intern_raw"
    /\ LET v == val[t]
           a == NewBox
           found == Recheck(do_hash(v), v)
       IN  /\ commits' = [commits EXCEPT ![t] = IF RunsCommit(found) THEN @ + 1 ELSE @]
           /\ IF found # None
              THEN /\ ret' = [ret EXCEPT ![t] = OccupiedKey(found, a)]
                   /\ path' = [path EXCEPT ![t] = "occupied"]
                   /\ UNCHANGED <<arena, capacity, heap, allocated, allocs>>
              ELSE /\ \E x \in Addrs : heap[x] = Free
                   /\ ret' = [ret EXCEPT ![t] = a]
                   /\ path' = [path EXCEPT ![t] = "vacant"]
                   /\ heap' = PinBox_new(heap, a, v)
                   /\ arena' = Insert(arena, [ptr |-> a, hash |-> do_hash(v)])
                   /\ capacity' = Grow(Cardinality(arena))
                   /\ allocated' = [allocated EXCEPT ![t] = TRUE]
                   /\ allocs' = [allocs EXCEPT ![v] = @ + 1]
    /\ pc' = [pc EXCEPT ![t] = "drop_write"]
    /\ UNCHANGED <<op, val, seen, lockvars, tryres, alive, internRet, getRet, drops>>

\* the write guard drops as intern returns
DropWrite(t) ==
    /\ pc[t] = "drop_write"
    /\ unlock_exclusive(FALSE)
    /\ pc' = [pc EXCEPT ![t] = "done"]
    /\ UNCHANGED <<op, val, ret, path, allocated, commits, seen, storevars, tryres, histvars>>

\* the caller has the result; the call's locals are gone
Return(t) ==
    /\ pc[t] = "done"
    /\ pc' = [pc EXCEPT ![t] = "idle"]
    /\ internRet' = IF op[t] \in Interns THEN internRet \cup {<<val[t], ret[t]>>} ELSE internRet
    /\ getRet' = IF op[t] \in Gets /\ ret[t] # None THEN getRet \cup {<<val[t], ret[t]>>} ELSE getRet
    /\ op' = [op EXCEPT ![t] = "none"]
    /\ val' = [val EXCEPT ![t] = None]
    /\ ret' = [ret EXCEPT ![t] = None]
    /\ path' = [path EXCEPT ![t] = "none"]
    /\ allocated' = [allocated EXCEPT ![t] = FALSE]
    /\ commits' = [commits EXCEPT ![t] = 0]
    /\ seen' = [seen EXCEPT ![t] = {}]
    /\ UNCHANGED <<lockvars, storevars, tryres, allocs, drops>>

Step(t) ==
    \/ Call(t)
    \/ Read(t)
    \/ Probe(t)
    \/ DropRead(t)
    \/ Write(t)
    \/ Entry(t)
    \/ RawEntry(t)
    \/ DropWrite(t)
    \/ Return(t)

Next == \E t \in Threads : Step(t)

Spec == Init /\ [][Next]_vars

----------------------------------------------------------------------------
(* The store's whole life: the calls above, then the drop of the Interner.
   Dropping needs the Interner by value, so no call is in progress and no
   handle borrowed from it is alive any more. *)

\* the table is freed and its keys are forgotten, not dropped
DropKeys_Leaks(h, ar) == h

\* drop of the HashMap: every key it holds is dropped, each PinBox once
DropKeys(h, ar) ==
    [a \in Addrs |-> IF \E e \in ar : e.ptr = a THEN PinBox_drop(h, a)[a] ELSE h[a]]

\* drop of the Interner: its fields drop, the arena with all its keys
Destroy ==
    /\ alive
    /\ \A t \in Threads : pc[t] = "idle"
    /\ alive' = FALSE
    /\ heap' = DropKeys(heap, arena)
    /\ drops' = [v \in Values |-> drops[v] + Cardinality({e \in arena : heap[e.ptr] = v})]
    /\ arena' = {}
    /\ capacity' = 0
    /\ UNCHANGED <<lockvars, callvars, tryres, internRet, getRet, allocs>>

LifeNext == Next \/ Destroy

LifeSpec == Init /\ [][LifeNext]_vars

----------------------------------------------------------------------------
(* The adapter alone, driven through lock_api's RawRwLock contract: a thread
   releases only a lock it holds, and holds at most one lock at a time. *)

\* what a try_* call hands its caller
TryResults == {"true", "false", "panic"}

\* where the caller of a try_* call stands after it
AfterTry(r, held) == IF r = "true" THEN held ELSE IF r = "panic" THEN "poison_panic" ELSE "idle"

LockShared(t) ==
    /\ pc[t] = "idle"
    /\ lock_shared
    /\ pc' = [pc EXCEPT ![t] = expect("shared")]
    /\ UNCHANGED <<op, val, ret, path, allocated, commits, seen, tryres, storevars, histvars>>

TryLockShared(t) ==
    /\ pc[t] = "idle"
    /\ \E r \in TryResults :
           /\ try_lock_shared(r)
           /\ pc' = [pc EXCEPT ![t] = AfterTry(r, "shared")]
           /\ tryres' = [tryres EXCEPT ![t] = r]
    /\ UNCHANGED <<op, val, ret, path, allocated, commits, seen, storevars, histvars>>

UnlockShared(t) ==
    /\ pc[t] = "shared"
    /\ unlock_shared
    /\ pc' = [pc EXCEPT ![t] = "idle"]
    /\ UNCHANGED <<op, val, ret, path, allocated, commits, seen, tryres, storevars, histvars>>

LockExclusive(t) ==
    /\ pc[t] \in {"idle", "wait_excl"}
    /\ lock_exclusive(t)
    /\ pc' = [pc EXCEPT ![t] = IF is_write_lockable THEN expect("excl") ELSE "wait_excl"]
    /\ UNCHANGED <<op, val, ret, path, allocated, commits, seen, tryres, storevars, histvars>>

TryLockExclusive(t) ==
    /\ pc[t] = "idle"
    /\ \E r \in TryResults :
           /\ try_lock_exclusive(r)
           /\ pc' = [pc EXCEPT ![t] = AfterTry(r, "excl")]
           /\ tryres' = [tryres EXCEPT ![t] = r]
    /\ UNCHANGED <<op, val, ret, path, allocated, commits, seen, storevars, histvars>>

UnlockExclusive(t) ==
    /\ pc[t] = "excl"
    /\ unlock_exclusive(FALSE)
    /\ pc' = [pc EXCEPT ![t] = "idle"]
    /\ UNCHANGED <<op, val, ret, path, allocated, commits, seen, tryres, storevars, histvars>>

LockStep(t) ==
    \/ LockShared(t)
    \/ TryLockShared(t)
    \/ UnlockShared(t)
    \/ LockExclusive(t)
    \/ TryLockExclusive(t)
    \/ UnlockExclusive(t)

LockNext == \E t \in Threads : LockStep(t)

LockSpec == Init /\ [][LockNext]_vars

----------------------------------------------------------------------------
(* The adapter when code running under the exclusive lock panics.  lock_api's
   write guard releases through unlock_exclusive as the holder unwinds, so the
   primitive's write guard is dropped on a panicking thread. *)

\* the holder of the exclusive lock panics; its guard unlocks during unwinding
HolderPanics(t) ==
    /\ pc[t] = "excl"
    /\ unlock_exclusive(TRUE)
    /\ pc' = [pc EXCEPT ![t] = "panicked"]
    /\ UNCHANGED <<op, val, ret, path, allocated, commits, seen, tryres, storevars, histvars>>

\* the panic has left the call: it is caught, or the thread is replaced
Caught(t) ==
    /\ pc[t] \in {"panicked", "poison_panic"}
    /\ pc' = [pc EXCEPT ![t] = "idle"]
    /\ UNCHANGED <<op, val, ret, path, allocated, commits, seen, tryres, lockvars, storevars, histvars>>

PoisonStep(t) ==
    \/ LockStep(t)
    \/ HolderPanics(t)
    \/ Caught(t)

PoisonNext == \E t \in Threads : PoisonStep(t)

PoisonSpec == Init /\ [][PoisonNext]_vars

----------------------------------------------------------------------------
(* LazyPinBox step by step: every lock operation but unlock_exclusive reaches
   the primitive through deref, which is call_once on the Once, the closure
   that writes the cell, and assume_init_ref. *)

\* the operations that go through self.lock
LazyOps == {"lock_shared", "try_lock_shared", "unlock_shared", "lock_exclusive", "try_lock_exclusive"}

\* the cell is initialised by whoever finds the Once not completed, unsynchronised
call_once_Unsynchronized(o) == IF o # "complete" THEN "run" ELSE "skip"

\* Once::call_once: the first caller runs the closure, a caller that finds it
\* running blocks until it has finished, a later caller skips it
call_once(o) == IF o = "incomplete" THEN "run" ELSE IF o = "running" THEN "wait" ELSE "skip"

\* a thread enters a lock operation; it releases the shared lock it holds, or
\* acquires when it holds none
LazyBegin(t) ==
    /\ pc[t] \in {"idle", "shared"}
    /\ \E o \in LazyOps :
           /\ o = "unlock_shared" <=> pc[t] = "shared"
           /\ op' = [op EXCEPT ![t] = o]
    /\ pc' = [pc EXCEPT ![t] = "call_once"]
    /\ UNCHANGED <<val, ret, path, allocated, commits, seen, tryres, lockvars, storevars, histvars>>

\* self.init.call_once(..)
OnceEnter(t) ==
    /\ pc[t] = "call_once"
    /\ call_once(once) # "wait"
    /\ IF call_once(once) = "run"
       THEN /\ once' = "running"
            /\ pc' = [pc EXCEPT ![t] = "closure"]
       ELSE /\ UNCHANGED once
            /\ pc' = [pc EXCEPT ![t] = "assume_init"]
    /\ UNCHANGED <<data, inits, readers, wlocked, waitW, writerPref, poisoned, write>>
    /\ UNCHANGED <<op, val, ret, path, allocated, commits, seen, tryres, storevars, histvars>>

\* the closure: (*self.data.get()).write(Box::pin(T::default()))
InitClosure(t) ==
    /\ pc[t] = "closure"
    /\ data' = inits + 1
    /\ inits' = inits + 1
    /\ pc' = [pc EXCEPT ![t] = "closure_done"]
    /\ UNCHANGED <<once, readers, wlocked, waitW, writerPref, poisoned, write>>
    /\ UNCHANGED <<op, val, ret, path, allocated, commits, seen, tryres, storevars, histvars>>

\* the closure has returned: the Once is completed and its waiters wake
OnceFinish(t) ==
    /\ pc[t] = "closure_done"
    /\ once' = "complete"
    /\ pc' = [pc EXCEPT ![t] = "assume_init"]
    /\ UNCHANGED <<data, inits, readers, wlocked, waitW, writerPref, poisoned, write>>
    /\ UNCHANGED <<op, val, ret, path, allocated, commits, seen, tryres, storevars, histvars>>

\* assume_init_ref, and the operation on the primitive it refers to
LazyUse(t) ==
    /\ pc[t] = "assume_init"
    /\ \/ /\ op[t] = "lock_shared"
          /\ lock_shared
          /\ pc' = [pc EXCEPT ![t] = expect("shared")]
          /\ UNCHANGED tryres
       \/ /\ op[t] = "try_lock_shared"
          /\ \E r \in TryResults :
                 /\ try_lock_shared(r)
                 /\ pc' = [pc EXCEPT ![t] = AfterTry(r, "shared")]
                 /\ tryres' = [tryres EXCEPT ![t] = r]
       \/ /\ op[t] = "unlock_shared"
          /\ unlock_shared
          /\ pc' = [pc EXCEPT ![t] = "idle"]
          /\ UNCHANGED tryres
       \/ /\ op[t] = "lock_exclusive"
          /\ lock_exclusive(t)
          /\ pc' = [pc EXCEPT ![t] = IF is_write_lockable THEN expect("excl") ELSE "wait_excl"]
          /\ UNCHANGED tryres
       \/ /\ op[t] = "try_lock_exclusive"
          /\ \E r \in TryResults :
                 /\ try_lock_exclusive(r)
                 /\ pc' = [pc EXCEPT ![t] = AfterTry(r, "excl")]
                 /\ tryres' = [tryres EXCEPT ![t] = r]
    /\ UNCHANGED <<op, val, ret, path, allocated, commits, seen, storevars, histvars>>

\* a thread blocked inside RwLock::write() is granted the lock
LazyGranted(t) ==
    /\ pc[t] = "wait_excl"
    /\ LockExclusive(t)

LazyStep(t) ==
    \/ LazyBegin(t)
    \/ OnceEnter(t)
    \/ InitClosure(t)
    \/ OnceFinish(t)
    \/ LazyUse(t)
    \/ LazyGranted(t)
    \/ UnlockExclusive(t)

LazyNext == \E t \in Threads : LazyStep(t)

LazySpec == Init /\ [][LazyNext]_vars

----------------------------------------------------------------------------
(* Properties *)

\* what finished and returning intern / intern_raw calls hold: <<value, address>>
InternResults ==
    internRet \cup {<<val[t], ret[t]>> : t \in {u \in Threads : pc[u] = "done" /\ op[u] \in Interns}}

\* what finished and returning get / get_raw calls hold
GetResults ==
    getRet \cup {<<val[t], ret[t]>> :
                    t \in {u \in Threads : pc[u] = "done" /\ op[u] \in Gets /\ ret[u] # None}}

\* C1: intern / intern_raw calls for the same value, whichever way they raced,
\* return handles that resolve to one and the same address
C1_RacersConverge ==
    \A t, u \in Threads :
        (/\ pc[t] = "done" /\ pc[u] = "done"
         /\ op[t] \in Interns /\ op[u] \in Interns
         /\ val[t] = val[u])
        => (ret[t] # None /\ ret[t] = ret[u])

\* two callers missed the fast path for the same value; one inserted, the other
\* found it at the recheck; both are returning
C1_Witness ==
    \E t, u \in Threads :
        /\ pc[t] = "done" /\ pc[u] = "done"
        /\ op[t] \in Interns /\ op[u] \in Interns
        /\ val[t] = val[u]
        /\ path[t] = "vacant" /\ path[u] = "occupied"

\* C2: no two entries of the set hold equal values
C2_NoDuplicateEntries ==
    \A e, f \in arena : heap[e.ptr] = heap[f.ptr] => e = f

\* the set holds two values and a racing caller has just found its value present
C2_Witness ==
    /\ Cardinality(arena) = 2
    /\ \E t \in Threads : pc[t] = "drop_write" /\ path[t] = "occupied"

\* C3 as stated: at most one allocation is ever created for a value
C3_OneAllocationEver ==
    \A v \in Values : allocs[v] <= 1

\* C3 amended: at most one Box per value is live (the retained one); a caller whose
\* recheck finds the value present has allocated exactly when it is intern, which
\* builds its Box before the recheck and drops it, and never when it is intern_raw
C3_OneBoxRetained ==
    /\ \A v \in Values : Cardinality({a \in Addrs : heap[a] = v}) <= 1
    /\ \A t \in Threads :
           path[t] = "occupied" => (allocated[t] <=> op[t] = "intern")

\* an intern caller lost the race: a second Box was created for the value and dropped
C3_Witness ==
    \E t \in Threads :
        /\ pc[t] = "done" /\ op[t] = "intern" /\ path[t] = "occupied"
        /\ allocs[val[t]] = 2
        /\ Cardinality({a \in Addrs : heap[a] = val[t]}) = 1

\* C4: a returning get(v) holds none while the set has no entry for v, and holds the
\* address a finished intern(v) returned whenever that intern returned before it began
C4_GetAgreesWithIntern ==
    \A t \in Threads :
        (pc[t] = "done" /\ op[t] \in Gets) =>
            /\ (\A e \in arena : heap[e.ptr] # val[t]) => ret[t] = None
            /\ seen[t] # {} => ret[t] \in seen[t]

\* a get that began after an intern of its value had returned is returning, while
\* another get is returning none
C4_Witness ==
    \E t, u \in Threads :
        /\ pc[t] = "done" /\ op[t] \in Gets /\ seen[t] # {} /\ ret[t] \in seen[t]
        /\ pc[u] = "done" /\ op[u] \in Gets /\ ret[u] = None

\* C5: two intern results resolve to the same address iff their values are equal
C5_SameAddressIffEqual ==
    \A p, q \in InternResults : (p[2] = q[2]) <=> (p[1] = q[1])

\* both values were interned, and a further intern of an interned value is returning
C5_Witness ==
    /\ \E p, q \in internRet : p[1] # q[1]
    /\ \E t \in Threads :
           pc[t] = "done" /\ op[t] \in Interns /\ <<val[t], ret[t]>> \in internRet

\* C6: every handle returned so far refers to a key of the table whose Box is live
\* and still holds the handle's value
C6_HandlesStayValid ==
    \A p \in InternResults \cup GetResults :
        /\ \E e \in arena : e.ptr = p[2]
        /\ heap[p[2]] = p[1]

\* handles are out, the table has grown since, and a caller that found its value
\* present at the recheck is returning the retained key
C6_Witness ==
    /\ internRet # {} /\ getRet # {}
    /\ capacity >= 2 /\ Cardinality(arena) >= 2
    /\ \E t \in Threads :
           pc[t] = "done" /\ path[t] = "occupied" /\ <<val[t], ret[t]>> \in internRet

\* C7: while a thread holds the lock exclusively, no other thread holds it at all
C7_ReaderWriterExclusion ==
    \A t, u \in Threads :
        (t # u /\ pc[t] = "excl") => pc[u] \notin {"shared", "excl"}

\* one thread holds the lock exclusively while another waits for it
C7_Witness ==
    \E t, u \in Threads : pc[t] = "excl" /\ pc[u] = "wait_excl" /\ u \in waitW

\* C8: every release-shared call by a holder lowers the primitive's number of
\* shared holders by exactly one
C8_ReleaseSharedUnlocks ==
    [][\A t \in Threads : UnlockShared(t) => readers' = readers - 1]_vars

\* C9: the store never deadlocks: once every shared holder has released and nobody
\* holds the lock exclusively, a thread waiting for the exclusive lock can take it
C9_WaitingWriterIsGranted ==
    \A t \in Threads :
        (/\ pc[t] = "write"
         /\ \A u \in Threads : pc[u] \notin {"probe", "drop_read", "entry", "drop_write"})
        => is_write_lockable

\* C10: a try_* call can always be taken (it never blocks) and reports true exactly
\* when the blocking call would go through at once; after true the caller holds the
\* lock in that mode (for exclusive, with the guard in the slot) for as long as it
\* has not released
C10_TryMatchesBlocking ==
    /\ [][\A t \in Threads :
            /\ TryLockShared(t) =>
                   /\ (tryres'[t] = "true") <=> ENABLED LockShared(t)
                   /\ tryres'[t] = "true" => (pc'[t] = "shared" /\ readers' = readers + 1)
            /\ TryLockExclusive(t) =>
                   /\ (tryres'[t] = "true") <=> ENABLED (LockExclusive(t) /\ pc'[t] = "excl")
                   /\ tryres'[t] = "true" => pc'[t] = "excl"]_vars
    /\ [](\A t \in Threads :
            /\ pc[t] = "idle" => (ENABLED TryLockShared(t) /\ ENABLED TryLockExclusive(t))
            /\ pc[t] = "shared" => (readers >= 1 /\ ~wlocked)
            /\ pc[t] = "excl" => (wlocked /\ write = "Some" /\ readers = 0))

\* one try_lock_exclusive went through and the caller holds the lock, while another
\* thread's try was refused
C10_Witness ==
    \E t, u \in Threads :
        /\ pc[t] = "excl" /\ tryres[t] = "true" /\ write = "Some"
        /\ pc[u] = "idle" /\ tryres[u] = "false"

\* C11: once a panic under the exclusive lock has poisoned the primitive, every
\* later acquire-shared, try-acquire-shared, acquire-exclusive and
\* try-acquire-exclusive still takes the lock as on an unpoisoned one, and none
\* of them fails because of the poison
C11_PoisonIsAbsorbed ==
    /\ [][\A t \in Threads :
            poisoned =>
                /\ LockShared(t) => (pc'[t] = "shared" /\ readers' = readers + 1)
                /\ TryLockShared(t) => (pc'[t] = "shared" <=> is_read_lockable)
                /\ (LockExclusive(t) /\ is_write_lockable) => (pc'[t] = "excl" /\ wlocked')
                /\ TryLockExclusive(t) => (pc'[t] = "excl" <=> is_write_lockable)]_vars
    /\ [](\A t \in Threads : pc[t] # "poison_panic")

\* threads that hold a read guard of the arena / the write guard of the arena
Reading == {t \in Threads : pc[t] \in {"probe", "drop_read"}}
Mutating == {t \in Threads : pc[t] \in {"entry", "drop_write"}}

\* C13: a probe runs while its thread holds the shared lock, an insertion while
\* its thread holds the exclusive lock, and no thread mutates the set while
\* another reads or mutates it; the set changes in no other step
C13_AccessUnderLock ==
    /\ [][\A t \in Threads :
            /\ Probe(t) => (readers >= 1 /\ ~wlocked)
            /\ (Entry(t) \/ RawEntry(t)) => (wlocked /\ write = "Some" /\ readers = 0)
            /\ (Step(t) /\ storevars' # storevars) =>
                   (pc[t] = "entry" /\ Reading = {} /\ Mutating = {t})]_vars
    /\ [](/\ Cardinality(Reading) <= readers
          /\ Mutating # {} => (wlocked /\ write = "Some" /\ Reading = {})
          /\ Cardinality(Mutating) <= 1)

\* one thread has inserted under the exclusive lock and still holds it, while
\* another thread's call waits to take the shared lock for its probe
C13_Witness ==
    \E t, u \in Threads :
        /\ pc[t] = "drop_write" /\ path[t] = "vacant" /\ wlocked
        /\ pc[u] = "read" /\ ~is_read_lockable

\* C14: an intern / intern_raw whose value is present when its fast-path probe
\* runs returns the stored handle straight after the probe: it never takes the
\* exclusive lock, creates no Box, and leaves the set as it was
C14_FastPathHit ==
    /\ [][\A t \in Threads :
            /\ (Probe(t) /\ op[t] \in Interns /\ Lookup(do_hash(val[t]), val[t]) # None) =>
                   /\ ret'[t] = Lookup(do_hash(val[t]), val[t])
                   /\ UNCHANGED <<storevars, allocs, wlocked, write, waitW>>
            /\ (DropRead(t) /\ op[t] \in Interns /\ ret[t] # None) =>
                   /\ pc'[t] = "done" /\ path'[t] = "fast" /\ ret'[t] = ret[t]
                   /\ UNCHANGED <<storevars, allocs, wlocked, write, waitW>>
            /\ (Return(t) /\ path[t] = "fast") =>
                   /\ <<val[t], ret[t]>> \in internRet'
                   /\ UNCHANGED <<storevars, allocs, wlocked, write, waitW>>]_vars
    /\ [](\A t \in Threads :
            /\ (pc[t] = "drop_read" /\ op[t] \in Interns /\ ret[t] # None) =>
                   (~allocated[t] /\ heap[ret[t]] = val[t] /\ t \notin waitW)
            /\ path[t] = "fast" =>
                   /\ pc[t] = "done" /\ ~allocated[t] /\ t \notin waitW
                   /\ \E e \in arena : e.ptr = ret[t] /\ heap[e.ptr] = val[t])

\* an intern is returning the stored handle from its fast path
C14_Witness ==
    \E t \in Threads :
        /\ pc[t] = "done" /\ op[t] = "intern" /\ path[t] = "fast"
        /\ ret[t] # None /\ ~allocated[t]

\* C15: get / get_raw is read-only: it takes only the shared lock, never the
\* exclusive one, creates no Box, and leaves the set of entries as it was,
\* whether or not it finds the value
C15_GetIsReadOnly ==
    /\ [][\A t \in Threads :
            (Step(t) /\ (op[t] \in Gets \/ op'[t] \in Gets)) =>
                UNCHANGED <<storevars, allocs, wlocked, write, waitW>>]_vars
    /\ [](\A t \in Threads :
            op[t] \in Gets =>
                /\ pc[t] \in {"read", "probe", "drop_read", "done"}
                /\ ~allocated[t] /\ path[t] = "none" /\ t \notin waitW)

\* one get is returning a miss and another a hit
C15_Witness ==
    \E t, u \in Threads :
        /\ pc[t] = "done" /\ op[t] \in Gets /\ ret[t] = None
        /\ pc[u] = "done" /\ op[u] \in Gets /\ ret[u] # None

\* C16: intern_raw runs commit at most once per call, and only in the step
\* where the recheck under the exclusive lock found no matching entry; when the
\* fast-path probe or the recheck finds a match, commit does not run and the
\* stored handle is returned
C16_CommitOnlyOnConfirmedMiss ==
    /\ [][\A t \in Threads :
            commits'[t] > commits[t] =>
                /\ RawEntry(t) /\ op[t] = "intern_raw"
                /\ wlocked /\ write = "Some" /\ readers = 0
                /\ Recheck(do_hash(val[t]), val[t]) = None
                /\ commits[t] = 0 /\ commits'[t] = 1
                /\ path'[t] = "vacant"]_vars
    /\ [](\A t \in Threads :
            /\ commits[t] <= 1
            /\ op[t] # "intern_raw" => commits[t] = 0
            /\ (op[t] = "intern_raw" /\ path[t] = "vacant") => commits[t] = 1
            /\ (op[t] = "intern_raw" /\ path[t] \in {"fast", "occupied"}) =>
                   /\ commits[t] = 0 /\ ~allocated[t]
                   /\ \E e \in arena : e.ptr = ret[t] /\ heap[e.ptr] = val[t])

\* two intern_raw calls for one value both missed the fast path: one ran commit
\* and inserted, the other found the entry at its recheck and did not
C16_Witness ==
    \E t, u \in Threads :
        /\ op[t] = "intern_raw" /\ op[u] = "intern_raw" /\ val[t] = val[u]
        /\ pc[t] = "done" /\ path[t] = "vacant" /\ commits[t] = 1
        /\ pc[u] = "done" /\ path[u] = "occupied" /\ commits[u] = 0

\* threads that hold the adapter's lock exclusively
ExclusiveHolders == {t \in Threads : pc[t] = "excl"}

\* C17: the slot holds a write guard exactly while some thread holds the lock
\* exclusively: it is filled by lock_exclusive or a successful
\* try_lock_exclusive, emptied by unlock_exclusive, and touched only by the
\* thread that holds the exclusive lock
C17_SlotTracksExclusiveHold ==
    /\ [][\A t \in Threads :
            /\ (LockStep(t) /\ write' # write) =>
                   \/ /\ LockExclusive(t) \/ TryLockExclusive(t)
                      /\ write = "None" /\ write' = "Some"
                      /\ ExclusiveHolders = {} /\ ExclusiveHolders' = {t} /\ wlocked'
                   \/ /\ UnlockExclusive(t)
                      /\ write = "Some" /\ write' = "None"
                      /\ ExclusiveHolders = {t} /\ ExclusiveHolders' = {} /\ ~wlocked'
            /\ TryLockExclusive(t) => (write' # write <=> tryres'[t] = "true")
            /\ (LockExclusive(t) \/ TryLockExclusive(t)) => (pc'[t] = "excl" <=> write' # write)
            /\ UnlockExclusive(t) => write' = "None"
            /\ (LockShared(t) \/ TryLockShared(t) \/ UnlockShared(t)) => write' = write]_vars
    /\ [](/\ write = "Some" <=> ExclusiveHolders # {}
          /\ write = "Some" <=> wlocked
          /\ Cardinality(ExclusiveHolders) <= 1)

\* one thread holds the lock exclusively with its guard in the slot while
\* another waits inside lock_exclusive, not having touched the slot
C17_Witness ==
    \E t, u \in Threads :
        /\ ExclusiveHolders = {t} /\ write = "Some" /\ wlocked
        /\ pc[u] = "wait_excl" /\ u \in waitW

\* C19: lock balance: with no get or intern call in progress the primitive has
\* no shared holder, no exclusive holder and the slot is empty; and every
\* acquire made inside a call is undone by one effective release before the
\* call returns, so the primitive's holders are exactly the calls that stand
\* between their acquire and their release
C19_LockBalance ==
    /\ (\A t \in Threads : pc[t] = "idle") =>
           (readers = 0 /\ ~wlocked /\ write = "None" /\ waitW = {})
    /\ readers = Cardinality(Reading)
    /\ wlocked <=> Mutating # {}
    /\ write = "Some" <=> Mutating # {}

\* the keys of the set that hold value v
EntriesOf(v) == {e \in arena : heap[e.ptr] = v}

\* C12 as stated: a Box is created only by a step that inserts it into the
\* set, no Box is freed while the store is alive, the set of entries only
\* grows, and the drop of the store frees every Box, once
C12_CreatedOnInsertDroppedAtTeardown ==
    /\ [][/\ allocs' # allocs => (arena' # arena /\ arena \subseteq arena')
          /\ alive' => (arena \subseteq arena' /\ drops' = drops)
          /\ drops' # drops => Destroy]_vars
    /\ [](/\ alive => \A v \in Values : drops[v] = 0
          /\ ~alive => (arena = {} /\ drops = allocs /\ \A a \in Addrs : heap[a] = Free))

\* C12, amended: every Box that enters the set is created by the step that
\* inserts it and is freed exactly once, by the drop of the store; while the
\* store is alive no entry's Box is freed and the set only grows.  The one
\* Box freed on its own is the candidate intern builds before its recheck: it
\* is freed in the same step, never having been in the set, when the recheck
\* finds the value present
C12_EntriesLiveUntilTeardown ==
    /\ [][/\ alive' =>
               /\ arena \subseteq arena'
               /\ \A e \in arena : heap'[e.ptr] = heap[e.ptr] /\ heap[e.ptr] # Free
               /\ \A e \in arena' \ arena :
                      /\ heap[e.ptr] = Free /\ heap'[e.ptr] \in Values
                      /\ allocs' = [allocs EXCEPT ![heap'[e.ptr]] = @ + 1]
               /\ drops' # drops =>
                      \E t \in Threads :
                          /\ Entry(t) /\ path'[t] = "occupied"
                          /\ drops' = [drops EXCEPT ![val[t]] = @ + 1]
                          /\ allocs' = [allocs EXCEPT ![val[t]] = @ + 1]
                          /\ UNCHANGED <<arena, heap>>
                          /\ ret'[t] \in {e.ptr : e \in arena}
          /\ ~alive' => (Destroy \/ UNCHANGED <<storevars, histvars>>)
          /\ Destroy => \A v \in Values : drops'[v] = drops[v] + Cardinality(EntriesOf(v))]_vars
    /\ [](/\ alive => \A v \in Values :
                       /\ allocs[v] - drops[v] = Cardinality(EntriesOf(v))
                       /\ Cardinality(EntriesOf(v)) <= 1
          /\ ~alive => (arena = {} /\ drops = allocs /\ \A a \in Addrs : heap[a] = Free))

\* the store has been dropped after it held both values and after an intern
\* had freed a candidate Box at its recheck
C12_Witness ==
    /\ ~alive
    /\ \A v \in Values : allocs[v] >= 1 /\ drops[v] = allocs[v]
    /\ \E v \in Values : allocs[v] >= 2
    /\ \A a \in Addrs : heap[a] = Free

\* threads running the one-time initializer / past deref, using the primitive
Initializing == {t \in Threads : pc[t] \in {"closure", "closure_done"}}
Using == {t \in Threads : pc[t] \in {"assume_init", "shared", "excl", "wait_excl"}}

\* C18: the primitive is constructed exactly once however the threads race on
\* their first lock operation: the cell is written once and never again, so
\* every thread sees the same instance, and a thread is past deref only when
\* the initializer has finished
C18_InitializedOnce ==
    /\ [][/\ data # Uninit => data' = data
          /\ once = "complete" => once' = "complete"
          /\ inits' # inits =>
                 \E t \in Threads : InitClosure(t) /\ once = "running" /\ inits = 0]_vars
    /\ [](/\ inits <= 1
          /\ Cardinality(Initializing) <= 1
          /\ once = "incomplete" => (data = Uninit /\ inits = 0 /\ Initializing = {})
          /\ once = "running" => Cardinality(Initializing) = 1
          /\ once = "complete" => (data = 1 /\ inits = 1 /\ Initializing = {})
          /\ Using # {} => (once = "complete" /\ data # Uninit)
          /\ (readers > 0 \/ wlocked \/ waitW # {}) => once = "complete")

\* one thread has written the cell but its call_once has not returned; the
\* other is blocked in call_once
C18_Witness ==
    \E t, u \in Threads :
        /\ pc[t] = "closure_done" /\ data # Uninit /\ once = "running"
        /\ pc[u] = "call_once" /\ ~ENABLED OnceEnter(u)

====
